---- MODULE Spec2Model ----
(***************************************************************************)
(* Voice-activity segmentation of paula: VoiceActivityDetector             *)
(* (src/paula/audio/vad.py) and the StreamingRecorder that drives it       *)
(* (src/paula/audio/recorder.py).                                          *)
(*                                                                         *)
(* A sample array (numpy array of float32) is represented by the sequence  *)
(* of spans [start, len] of the input stream it is made of, contiguous     *)
(* spans merged: the array holding stream samples 0..959 is                *)
(* <<[start |-> 0, len |-> 960]>>.  The sample values themselves only      *)
(* matter to the external classifier, whose verdict is an input.           *)
(***************************************************************************)
EXTENDS Integers, Sequences, FiniteSets, TLC

\* ------------------------------------------------------------- bounds
\* frames of audio fed to one detector in Spec
MaxFrames == 5
\* longest chunk handed to process_chunk, in frames
MaxChunkFrames == 3
\* reset() and get_buffered_speech() calls made on one detector
MaxControlCalls == 1
\* SpecScenario: longest leading silence run and longest speech run
MaxLeadSilence == 3
MaxSpeechRun == 5
\* SpecDrv: frames the stream delivers, and frames per callback
MaxDrvFrames == 4
MaxDrvChunkFrames == 2

\* ---------------------------------------------------------- constants
FRAME_DURATION_MS == 30

VARIABLES
    cfg,          \* constructor arguments of the VoiceActivityDetector
    vad,          \* the VoiceActivityDetector's fields
    pos,          \* stream position: samples delivered so far
    history,      \* frames classified so far, with their verdicts, in order
    epoch_pos,    \* the stream position when reset() last ran
    op,           \* the operation performed last
    ncontrol,     \* reset() and get_buffered_speech() calls made so far
    result,       \* what the last operation returned: <<>> (None) or <<segment>>
    evals,        \* results of the emission evaluations of the last process_chunk
    emitted,      \* every segment returned so far, in order
    running,      \* StreamingRecorder._running
    stream,       \* StreamingRecorder._stream: "none" or "open"
    speech_queue, \* StreamingRecorder._speech_queue
    gen,          \* where the generator returned by start() stands
    yielded,      \* the segments the generator has yielded, in order
    construction, \* how __init__ ended: "pending", "ok" or "ValueError"
    failed,       \* SpecClassify: the frames whose classification raised
    cb,           \* SpecDrv: the audio callback thread, inside _audio_callback
    st,           \* SpecDrv: the thread calling stop()
    enqueued,     \* SpecDrv: every segment put on the queue, in order
    exc,          \* SpecDrv: the exception pending in the generator
    errors,       \* SpecDrv: AudioErrors the generator has raised to the consumer
    closes        \* SpecDrv: stop()/close() calls made on the stream

vadvars == <<vad, pos, history, epoch_pos, result, evals, emitted>>
recvars == <<running, stream, speech_queue, gen, yielded>>
auxvars == <<construction, failed, cb, st, enqueued, exc, errors, closes>>
vars == <<cfg, op, ncontrol, vadvars, recvars, auxvars>>

\* ------------------------------------------------------ sample arrays
RECURSIVE ALen(_)
ALen(a) == IF a = <<>> THEN 0 ELSE a[1].len + ALen(Tail(a))

\* np.concatenate([a, b])
NpConcat2(a, b) ==
    IF a = <<>> THEN b
    ELSE IF b = <<>> THEN a
    ELSE LET l == a[Len(a)]
         IN IF l.start + l.len = b[1].start
            THEN SubSeq(a, 1, Len(a) - 1)
                 \o <<[start |-> l.start, len |-> l.len + b[1].len]>>
                 \o Tail(b)
            ELSE a \o b

\* np.concatenate(list of arrays)
RECURSIVE NpConcatenate(_)
NpConcatenate(arrays) ==
    IF arrays = <<>> THEN <<>>
    ELSE NpConcat2(arrays[1], NpConcatenate(Tail(arrays)))

\* a[:n]
RECURSIVE Take(_, _)
Take(a, n) ==
    IF n <= 0 \/ a = <<>> THEN <<>>
    ELSE IF a[1].len <= n THEN NpConcat2(<<a[1]>>, Take(Tail(a), n - a[1].len))
    ELSE <<[start |-> a[1].start, len |-> n]>>

\* a[n:]
RECURSIVE Drop(_, _)
Drop(a, n) ==
    IF a = <<>> THEN <<>>
    ELSE IF n <= 0 THEN a
    ELSE IF a[1].len <= n THEN Drop(Tail(a), n - a[1].len)
    ELSE <<[start |-> a[1].start + n, len |-> a[1].len - n]>> \o Tail(a)

\* ------------------------------------------------ derived configuration
\* int(a / b) for b > 0: rounds toward zero
IntTrunc(a, b) == IF a >= 0 THEN a \div b ELSE -((-a) \div b)

frame_size == IntTrunc(cfg.sample_rate * FRAME_DURATION_MS, 1000)
silence_frames_threshold == IntTrunc(cfg.silence_threshold_ms, FRAME_DURATION_MS)
min_speech_frames == IntTrunc(cfg.min_speech_ms, FRAME_DURATION_MS)
padding_frames == IntTrunc(cfg.speech_padding_ms, FRAME_DURATION_MS)

\* the detector's state after __init__
InitialVad ==
    [speech_buffer |-> <<>>, pre_speech_buffer |-> <<>>, silence_frames |-> 0,
     speech_frames |-> 0, is_speaking |-> FALSE, chunk_buffer |-> <<>>]

\* ------------------------------------------------------ classification
\* what webrtcvad does with a frame: a verdict, or an exception
Outcomes == {"speech", "nonspeech", "raise"}

\* mutant: an exception is answered True
MutIsSpeechFailsClosed(outcome) == outcome # "nonspeech"

\* _is_speech: an exception is logged and answered False
is_speech(outcome) == IF outcome = "raise" THEN FALSE ELSE outcome = "speech"

\* --------------------------------------------------------- process_chunk
\* mutant: the pre-speech padding is not added
MutStartSpeechNoPadding(v) ==
    [v EXCEPT !.is_speaking = TRUE, !.speech_frames = 0]

\* "Speech just started"
StartSpeech(v) ==
    LET v1 == [v EXCEPT !.is_speaking = TRUE, !.speech_frames = 0]
    IN IF v.pre_speech_buffer # <<>>
       THEN [v1 EXCEPT !.speech_buffer = v.pre_speech_buffer]
       ELSE v1

\* mutant: the padding frames are counted as speech frames
MutOnSpeechCountsPadding(v, frame) ==
    LET v1 == IF ~v.is_speaking THEN StartSpeech(v) ELSE v
    IN [v1 EXCEPT !.speech_buffer = Append(@, frame),
                  !.speech_frames = Len(v1.speech_buffer) + 1,
                  !.silence_frames = 0]

\* mutant: the silence count survives a speech frame
MutOnSpeechKeepsSilence(v, frame) ==
    LET v1 == IF ~v.is_speaking THEN StartSpeech(v) ELSE v
    IN [v1 EXCEPT !.speech_buffer = Append(@, frame),
                  !.speech_frames = @ + 1]

\* the is_speech branch of the loop body
OnSpeech(v, frame) ==
    LET v1 == IF ~v.is_speaking THEN StartSpeech(v) ELSE v
    IN [v1 EXCEPT !.speech_buffer = Append(@, frame),
                  !.speech_frames = @ + 1,
                  !.silence_frames = 0]

\* mutant: pop() for pop(0), the newest frame is evicted
MutUpdatePreSpeechPopLast(ring, frame) ==
    LET r == Append(ring, frame)
    IN IF Len(r) > padding_frames THEN SubSeq(r, 1, Len(r) - 1) ELSE r

\* mutant: the ring is never trimmed
MutUpdatePreSpeechNoTrim(ring, frame) == Append(ring, frame)

\* "Update pre-speech ring buffer (for padding)"
UpdatePreSpeech(ring, frame) ==
    LET r == Append(ring, frame)
    IN IF Len(r) > padding_frames THEN Tail(r) ELSE r

\* mutant: > for >=
MutSegmentCompleteStrict(v) ==
    IF v.speech_frames > min_speech_frames
    THEN <<NpConcatenate(v.speech_buffer)>>
    ELSE <<>>

\* mutant: no minimum speech duration
MutSegmentCompleteAlways(v) == <<NpConcatenate(v.speech_buffer)>>

\* "Silence threshold reached - speech segment complete": <<segment>> or <<>>
SegmentComplete(v) ==
    IF v.speech_frames >= min_speech_frames
    THEN <<NpConcatenate(v.speech_buffer)>>
    ELSE <<>>

\* mutant: the counters survive the evaluation
MutResetSegmentKeepsCounters(v) ==
    [v EXCEPT !.speech_buffer = <<>>, !.is_speaking = FALSE]

\* mutant: the speech buffer survives the evaluation
MutResetSegmentKeepsBuffer(v) ==
    [v EXCEPT !.silence_frames = 0, !.speech_frames = 0, !.is_speaking = FALSE]

\* "Reset state" after an emission evaluation
ResetSegment(v) ==
    [v EXCEPT !.speech_buffer = <<>>, !.silence_frames = 0,
              !.speech_frames = 0, !.is_speaking = FALSE]

\* mutant: every evaluation overwrites the result slot
MutStoreResultOverwrite(old, seg) == seg

\* what an emission evaluation leaves in the result slot
StoreResult(old, seg) == IF seg # <<>> THEN seg ELSE old

\* mutant: the "if self._is_speaking" guard is missing
MutOnSilenceAlwaysBuffers(ls, frame) ==
    LET v2 == [ls.vad EXCEPT !.pre_speech_buffer = UpdatePreSpeech(@, frame),
                             !.speech_buffer = Append(@, frame),
                             !.silence_frames = @ + 1]
    IN IF v2.silence_frames >= silence_frames_threshold
       THEN LET seg == SegmentComplete(v2)
            IN [ls EXCEPT !.vad = ResetSegment(v2),
                          !.result = StoreResult(@, seg),
                          !.evals = Append(@, seg)]
       ELSE [ls EXCEPT !.vad = v2]

\* mutant: the ring is updated in Idle only
MutOnSilenceRingIdleOnly(ls, frame) ==
    IF ls.vad.is_speaking
    THEN LET v2 == [ls.vad EXCEPT !.speech_buffer = Append(@, frame),
                                  !.silence_frames = @ + 1]
         IN IF v2.silence_frames >= silence_frames_threshold
            THEN LET seg == SegmentComplete(v2)
                 IN [ls EXCEPT !.vad = ResetSegment(v2),
                               !.result = StoreResult(@, seg),
                               !.evals = Append(@, seg)]
            ELSE [ls EXCEPT !.vad = v2]
    ELSE [ls EXCEPT !.vad.pre_speech_buffer = UpdatePreSpeech(@, frame)]

\* the else branch of the loop body; ls is the loop's state
OnSilence(ls, frame) ==
    LET v1 == [ls.vad EXCEPT !.pre_speech_buffer = UpdatePreSpeech(@, frame)]
    IN IF v1.is_speaking
       THEN LET v2 == [v1 EXCEPT !.speech_buffer = Append(@, frame),
                                 !.silence_frames = @ + 1]
            IN IF v2.silence_frames >= silence_frames_threshold
               THEN LET seg == SegmentComplete(v2)
                    IN [ls EXCEPT !.vad = ResetSegment(v2),
                                  !.result = StoreResult(@, seg),
                                  !.evals = Append(@, seg)]
               ELSE [ls EXCEPT !.vad = v2]
       ELSE [ls EXCEPT !.vad = v1]

\* one turn of the while loop: the next frame is sliced off, classified
\* (outcome is the classifier's answer) and applied; log is the frames
\* classified in this call
LoopBody(ls, outcome) ==
    LET frame == Take(ls.vad.chunk_buffer, frame_size)
        ls1 == [ls EXCEPT !.vad.chunk_buffer = Drop(@, frame_size),
                          !.log = Append(@, [frame |-> frame,
                                             speech |-> is_speech(outcome)])]
    IN IF is_speech(outcome)
       THEN [ls1 EXCEPT !.vad = OnSpeech(@, frame)]
       ELSE OnSilence(ls1, frame)

\* "Process complete frames": the while loop; outcomes are the classifier's
\* answers for the frames to come
RECURSIVE FrameLoop(_, _)
FrameLoop(ls, outcomes) ==
    IF ALen(ls.vad.chunk_buffer) >= frame_size
    THEN FrameLoop(LoopBody(ls, Head(outcomes)), Tail(outcomes))
    ELSE ls

\* mutant: the chunk replaces the carry-over instead of extending it
MutProcessChunkDropsCarry(v, audio_chunk, outcomes) ==
    FrameLoop([vad |-> [v EXCEPT !.chunk_buffer = audio_chunk],
               result |-> <<>>, evals |-> <<>>, log |-> <<>>],
              outcomes)

process_chunk(v, audio_chunk, outcomes) ==
    FrameLoop([vad |-> [v EXCEPT !.chunk_buffer = NpConcat2(@, audio_chunk)],
               result |-> <<>>, evals |-> <<>>, log |-> <<>>],
              outcomes)

\* ------------------------------------------- reset, get_buffered_speech
\* mutant: the padding ring survives reset()
MutResetKeepsPadding(v) ==
    [v EXCEPT !.speech_buffer = <<>>, !.silence_frames = 0, !.speech_frames = 0,
              !.is_speaking = FALSE, !.chunk_buffer = <<>>]

reset(v) ==
    [v EXCEPT !.speech_buffer = <<>>, !.pre_speech_buffer = <<>>,
              !.silence_frames = 0, !.speech_frames = 0,
              !.is_speaking = FALSE, !.chunk_buffer = <<>>]

\* mutant: > for >=
MutGetBufferedSpeechStrict(v) ==
    IF v.speech_buffer # <<>> /\ v.speech_frames > min_speech_frames
    THEN [vad |-> reset(v), result |-> <<NpConcatenate(v.speech_buffer)>>, did_reset |-> TRUE]
    ELSE [vad |-> v, result |-> <<>>, did_reset |-> FALSE]

\* returns the detector afterwards, the return value, and whether reset() ran
get_buffered_speech(v) ==
    IF v.speech_buffer # <<>> /\ v.speech_frames >= min_speech_frames
    THEN [vad |-> reset(v), result |-> <<NpConcatenate(v.speech_buffer)>>, did_reset |-> TRUE]
    ELSE [vad |-> v, result |-> <<>>, did_reset |-> FALSE]

\* ---------------------------------------------------------------- actions
\* chunk lengths the capture side delivers: half a frame, which shifts the
\* frame boundaries against the chunk boundaries, or whole frames
ChunkLens == {frame_size \div 2} \cup {k * frame_size : k \in 1..MaxChunkFrames}

\* the frames a call on n more samples will classify
FramesIn(n) == (ALen(vad.chunk_buffer) + n) \div frame_size

\* one process_chunk call on a chunk of n fresh samples
ProcessChunkWith(n, outcomes) ==
    LET ls == process_chunk(vad, <<[start |-> pos, len |-> n]>>, outcomes)
    IN /\ vad' = ls.vad
       /\ pos' = pos + n
       /\ history' = history \o ls.log
       /\ result' = ls.result
       /\ evals' = ls.evals
       /\ emitted' = emitted \o ls.result
       /\ UNCHANGED <<cfg, epoch_pos>>

ProcessChunk ==
    \E n \in ChunkLens :
        /\ pos + n <= MaxFrames * frame_size
        /\ \E outcomes \in [1..FramesIn(n) -> Outcomes] : ProcessChunkWith(n, outcomes)
        /\ op' = "process_chunk"
        /\ UNCHANGED auxvars
        /\ UNCHANGED <<ncontrol, recvars>>

\* one reset() call
ResetCall ==
    /\ vad' = reset(vad)
    /\ epoch_pos' = pos
    /\ result' = <<>>
    /\ evals' = <<>>
    /\ UNCHANGED <<cfg, pos, history, emitted>>

Reset ==
    /\ ncontrol < MaxControlCalls
    /\ ncontrol' = ncontrol + 1
    /\ ResetCall
    /\ op' = "reset"
    /\ UNCHANGED auxvars
    /\ UNCHANGED recvars

\* one get_buffered_speech() call
GetBufferedSpeechCall ==
    LET r == get_buffered_speech(vad)
    IN /\ vad' = r.vad
       /\ epoch_pos' = IF r.did_reset THEN pos ELSE epoch_pos
       /\ result' = r.result
       /\ evals' = <<>>
       /\ emitted' = emitted \o r.result
       /\ UNCHANGED <<cfg, pos, history>>

GetBufferedSpeech ==
    /\ ncontrol < MaxControlCalls
    /\ ncontrol' = ncontrol + 1
    /\ GetBufferedSpeechCall
    /\ op' = "get_buffered_speech"
    /\ UNCHANGED auxvars
    /\ UNCHANGED recvars

\* ------------------------------------------------------ StreamingRecorder
\* _cleanup: stop and close the stream if there is one
cleanup(s) == IF s # "none" THEN "none" ELSE s

\* _audio_callback: the stream delivers a chunk of n samples
AudioCallback ==
    /\ stream = "open"
    /\ \E n \in ChunkLens :
        /\ pos + n <= MaxFrames * frame_size
        /\ IF ~running
           THEN /\ pos' = pos + n
                /\ result' = <<>>
                /\ evals' = <<>>
                /\ UNCHANGED <<cfg, vad, history, epoch_pos, emitted, speech_queue>>
           ELSE /\ \E outcomes \in [1..FramesIn(n) -> Outcomes] : ProcessChunkWith(n, outcomes)
                /\ speech_queue' = speech_queue \o result'
    /\ op' = "audio_callback"
    /\ UNCHANGED auxvars
    /\ UNCHANGED <<ncontrol, running, stream, gen, yielded>>

\* start(): the generator runs up to its polling loop
GenStart ==
    /\ gen = "unstarted"
    /\ running' = TRUE
    /\ ResetCall
    /\ stream' = "open"
    /\ gen' = "polling"
    /\ op' = "start"
    /\ UNCHANGED auxvars
    /\ UNCHANGED <<ncontrol, speech_queue, yielded>>

\* one turn of "while self._running": a segment is yielded, or the get times out
GenPoll ==
    /\ gen = "polling"
    /\ running
    /\ IF speech_queue # <<>>
       THEN /\ yielded' = Append(yielded, Head(speech_queue))
            /\ speech_queue' = Tail(speech_queue)
            /\ gen' = "yielded"
       ELSE UNCHANGED <<yielded, speech_queue, gen>>
    /\ op' = "poll"
    /\ UNCHANGED auxvars
    /\ UNCHANGED <<cfg, ncontrol, vadvars, running, stream>>

\* the consumer asks for the next segment
GenResume ==
    /\ gen = "yielded"
    /\ gen' = "polling"
    /\ op' = "resume"
    /\ UNCHANGED auxvars
    /\ UNCHANGED <<cfg, ncontrol, vadvars, running, stream, speech_queue, yielded>>

\* the loop finds _running false: the finally clause runs, the generator ends
GenExit ==
    /\ gen = "polling"
    /\ ~running
    /\ stream' = cleanup(stream)
    /\ gen' = "done"
    /\ op' = "exit"
    /\ UNCHANGED auxvars
    /\ UNCHANGED <<cfg, ncontrol, vadvars, running, speech_queue, yielded>>

\* stop()
Stop ==
    /\ ncontrol < MaxControlCalls
    /\ ncontrol' = ncontrol + 1
    /\ running' = FALSE
    /\ GetBufferedSpeechCall
    /\ stream' = cleanup(stream)
    /\ op' = "stop"
    /\ UNCHANGED auxvars
    /\ UNCHANGED <<speech_queue, gen, yielded>>

\* ------------------------------------------------------- specifications
Config(rate, silence_ms, speech_ms, padding_ms) ==
    [sample_rate |-> rate, silence_threshold_ms |-> silence_ms,
     min_speech_ms |-> speech_ms, speech_padding_ms |-> padding_ms]

\* thresholds of 0, 1 and 2 frames, with padding below, at and above the
\* silence threshold
Configs ==
    {Config(16000, 30, 30, 30), Config(16000, 30, 60, 60),
     Config(16000, 60, 30, 30), Config(16000, 60, 60, 0),
     Config(16000, 30, 0, 0), Config(16000, 20, 30, 30),
     Config(8000, 45, 70, 100)}

InitWith(configs) ==
    /\ cfg \in configs
    /\ vad = InitialVad
    /\ pos = 0
    /\ history = <<>>
    /\ epoch_pos = 0
    /\ op = "init"
    /\ ncontrol = 0
    /\ result = <<>>
    /\ evals = <<>>
    /\ emitted = <<>>
    /\ running = FALSE
    /\ stream = "none"
    /\ speech_queue = <<>>
    /\ gen = "unstarted"
    /\ yielded = <<>>
    /\ construction = "ok"
    /\ failed = {}
    /\ cb = [pc |-> "idle", result |-> <<>>]
    /\ st = [pc |-> "idle", remaining |-> <<>>]
    /\ enqueued = <<>>
    /\ exc = "none"
    /\ errors = 0
    /\ closes = 0

\* Spec: a VoiceActivityDetector driven through its own methods
Init == InitWith(Configs)

Next == ProcessChunk \/ Reset \/ GetBufferedSpeech

Spec == Init /\ [][Next]_vars

\* SpecRec: a StreamingRecorder, whose detector gets the default padding
DEFAULT_SPEECH_PADDING_MS == 300

RecConfigs ==
    {Config(16000, 30, 30, DEFAULT_SPEECH_PADDING_MS),
     Config(16000, 60, 30, DEFAULT_SPEECH_PADDING_MS),
     Config(16000, 60, 60, DEFAULT_SPEECH_PADDING_MS)}

InitRec == InitWith(RecConfigs)

NextRec == GenStart \/ AudioCallback \/ GenPoll \/ GenResume \/ GenExit \/ Stop

SpecRec == InitRec /\ [][NextRec]_vars

\* SpecScenario: a fresh detector fed p non-speech frames, then s speech
\* frames, then silence_frames_threshold non-speech frames, chunked anyhow
ScenarioConfigs ==
    {Config(16000, 300, 90, 60), Config(16000, 60, 30, 30),
     Config(8000, 30, 60, 0), Config(16000, 20, 30, 30),
     Config(16000, 60, 0, 60)}

Repeat(x, n) == [i \in 1..n |-> x]

Script(p, s) ==
    Repeat(FALSE, p) \o Repeat(TRUE, s) \o Repeat(FALSE, silence_frames_threshold)

Verdicts(h) == [i \in 1..Len(h) |-> h[i].speech]

IsPrefix(a, b) == Len(a) <= Len(b) /\ a = SubSeq(b, 1, Len(a))

Feed ==
    \E n \in ChunkLens :
        /\ \E outcomes \in [1..FramesIn(n) -> Outcomes] : ProcessChunkWith(n, outcomes)
        /\ \E p \in 0..MaxLeadSilence, s \in 0..MaxSpeechRun :
               IsPrefix(Verdicts(history'), Script(p, s))
        /\ op' = "process_chunk"
        /\ UNCHANGED auxvars
        /\ UNCHANGED <<ncontrol, recvars>>

InitScenario == InitWith(ScenarioConfigs)

NextScenario == Feed

SpecScenario == InitScenario /\ [][NextScenario]_vars

\* ------------------------------------------- StreamingRecorder, by steps
\* SpecDrv: the recorder with its three threads of control interleaved step
\* by step: the generator returned by start(), the PortAudio thread running
\* _audio_callback, and a thread calling stop() once. In it stream is "none"
\* (self._stream is None), "created" (InputStream built), "open" (started)
\* or "closed" (stopped and closed, self._stream still set); gen is the
\* generator's position: "unstarted", "create", "start", "check" (at "while
\* self._running"), "get" (in the queue get), "yielded", "cleanup", "close",
\* "unset", "done".
drvfixed == <<cfg, ncontrol, construction, failed, evals>>

DrvConfigs ==
    {Config(16000, 30, 30, DEFAULT_SPEECH_PADDING_MS),
     Config(16000, 60, 30, DEFAULT_SPEECH_PADDING_MS)}

DrvChunkLens == {k * frame_size : k \in 1..MaxDrvChunkFrames}

\* mutant: Queue(maxsize=1)
MutFullBounded(q) == Len(q) >= 1

\* Queue(): maxsize 0, the queue is never full and put never waits
full(q) == FALSE

\* ---- the audio callback thread
\* the stream delivers n samples: "if not self._running: return", else
\* process_chunk is entered and the chunk joins the carry-over
CbEnter ==
    /\ stream = "open"
    /\ cb.pc = "idle"
    /\ \E n \in DrvChunkLens :
        /\ pos + n <= MaxDrvFrames * frame_size
        /\ pos' = pos + n
        /\ IF ~running
           THEN UNCHANGED <<vad, cb>>
           ELSE /\ vad' = [vad EXCEPT !.chunk_buffer =
                               NpConcat2(@, <<[start |-> pos, len |-> n]>>)]
                /\ cb' = [pc |-> "loop", result |-> <<>>]
    /\ op' = "cb_enter"
    /\ UNCHANGED <<drvfixed, history, epoch_pos, result, emitted, recvars,
                   st, enqueued, exc, errors, closes>>

\* one turn of process_chunk's while loop
CbFrame ==
    /\ cb.pc = "loop"
    /\ ALen(vad.chunk_buffer) >= frame_size
    /\ \E outcome \in Outcomes :
        LET ls == LoopBody([vad |-> vad, result |-> cb.result,
                            evals |-> <<>>, log |-> <<>>], outcome)
        IN /\ vad' = ls.vad
           /\ cb' = [cb EXCEPT !.result = ls.result]
           /\ history' = history \o ls.log
    /\ op' = "cb_frame"
    /\ UNCHANGED <<drvfixed, pos, epoch_pos, result, emitted, recvars,
                   st, enqueued, exc, errors, closes>>

\* the loop ends, process_chunk returns, a segment is put on the queue
CbReturn ==
    /\ cb.pc = "loop"
    /\ ALen(vad.chunk_buffer) < frame_size
    /\ cb.result # <<>> => ~full(speech_queue)
    /\ result' = cb.result
    /\ emitted' = emitted \o cb.result
    /\ speech_queue' = speech_queue \o cb.result
    /\ enqueued' = enqueued \o cb.result
    /\ cb' = [pc |-> "idle", result |-> <<>>]
    /\ op' = "cb_return"
    /\ UNCHANGED <<drvfixed, vad, pos, history, epoch_pos, running, stream,
                   gen, yielded, st, exc, errors, closes>>

\* ---- the generator
\* the first next(): the flag is set and the detector reset
StartBegin ==
    /\ gen = "unstarted"
    /\ running' = TRUE
    /\ vad' = reset(vad)
    /\ epoch_pos' = pos
    /\ gen' = "create"
    /\ op' = "start"
    /\ UNCHANGED <<drvfixed, pos, history, result, emitted, stream,
                   speech_queue, yielded, cb, st, enqueued, exc, errors, closes>>

\* sd.InputStream(...): the stream is built, or the call raises
CreateStream ==
    /\ gen = "create"
    /\ \/ stream' = "created" /\ gen' = "start" /\ exc' = exc
       \/ stream' = stream /\ gen' = "cleanup" /\ exc' = "AudioError"
    /\ op' = "create_stream"
    /\ UNCHANGED <<drvfixed, vadvars, running, speech_queue, yielded, cb, st,
                   enqueued, errors, closes>>

\* self._stream.start(): the stream starts, or the call raises; it raises
\* too when stop() has closed the stream or set self._stream to None in
\* between
StartStream ==
    /\ gen = "start"
    /\ \/ stream = "created" /\ stream' = "open" /\ gen' = "check" /\ exc' = exc
       \/ stream' = stream /\ gen' = "cleanup" /\ exc' = "AudioError"
    /\ op' = "start_stream"
    /\ UNCHANGED <<drvfixed, vadvars, running, speech_queue, yielded, cb, st,
                   enqueued, errors, closes>>

\* mutant: "while True"
MutLoopCheckIgnoresFlag ==
    /\ gen = "check"
    /\ gen' = "get"
    /\ op' = "loop_check"
    /\ UNCHANGED <<drvfixed, vadvars, running, stream, speech_queue, yielded,
                   cb, st, enqueued, exc, errors, closes>>

\* "while self._running": into the queue get, or out of the loop
LoopCheck ==
    /\ gen = "check"
    /\ gen' = IF running THEN "get" ELSE "cleanup"
    /\ op' = "loop_check"
    /\ UNCHANGED <<drvfixed, vadvars, running, stream, speech_queue, yielded,
                   cb, st, enqueued, exc, errors, closes>>

\* mutant: the newest segment is taken
MutGetNewest(q) == [item |-> q[Len(q)], rest |-> SubSeq(q, 1, Len(q) - 1)]

\* Queue.get: the oldest segment on the queue q, and the queue without it
get(q) == [item |-> Head(q), rest |-> Tail(q)]

\* self._speech_queue.get(timeout=0.1): a segment is there and is yielded, or
\* the wait times out (Empty) and the loop goes round
QueueGet ==
    /\ gen = "get"
    /\ IF speech_queue # <<>>
       THEN /\ yielded' = Append(yielded, get(speech_queue).item)
            /\ speech_queue' = get(speech_queue).rest
            /\ gen' = "yielded"
       ELSE /\ gen' = "check"
            /\ UNCHANGED <<yielded, speech_queue>>
    /\ op' = "queue_get"
    /\ UNCHANGED <<drvfixed, vadvars, running, stream, cb, st, enqueued, exc,
                   errors, closes>>

\* the consumer asks for the next segment: the loop goes round
Resume ==
    /\ gen = "yielded"
    /\ gen' = "check"
    /\ op' = "resume"
    /\ UNCHANGED <<drvfixed, vadvars, running, stream, speech_queue, yielded,
                   cb, st, enqueued, exc, errors, closes>>

\* mutant: no finally clause on the way out
MutYieldRaisesSkipsFinally ==
    /\ gen = "yielded"
    /\ exc' \in {"GeneratorExit", "AudioError"}
    /\ gen' = "done"
    /\ op' = "yield_raises"
    /\ UNCHANGED <<drvfixed, vadvars, running, stream, speech_queue, yielded,
                   cb, st, enqueued, errors, closes>>

\* the consumer ends the suspended generator: close() raises GeneratorExit at
\* the yield, which "except Exception" lets through; throw() of an Exception
\* is turned into AudioError; the finally clause runs in both cases
YieldRaises ==
    /\ gen = "yielded"
    /\ exc' \in {"GeneratorExit", "AudioError"}
    /\ gen' = "cleanup"
    /\ op' = "yield_raises"
    /\ UNCHANGED <<drvfixed, vadvars, running, stream, speech_queue, yielded,
                   cb, st, enqueued, errors, closes>>

\* finally: _cleanup(), "if self._stream is not None"
GenCleanupCheck ==
    /\ gen = "cleanup"
    /\ IF stream # "none"
       THEN gen' = "close" /\ errors' = errors
       ELSE /\ gen' = "done"
            /\ errors' = errors + (IF exc = "AudioError" THEN 1 ELSE 0)
    /\ op' = "gen_cleanup"
    /\ UNCHANGED <<drvfixed, vadvars, running, stream, speech_queue, yielded,
                   cb, st, enqueued, exc, closes>>

\* _cleanup(): stop() and close() are called on the stream, which leaves it
\* closed; an error, such as the other thread having set self._stream to
\* None, is logged
GenCleanupClose ==
    /\ gen = "close"
    /\ closes' = closes + (IF stream # "none" THEN 1 ELSE 0)
    /\ stream' = IF stream # "none" THEN "closed" ELSE stream
    /\ gen' = "unset"
    /\ op' = "gen_close"
    /\ UNCHANGED <<drvfixed, vadvars, running, speech_queue, yielded, cb, st,
                   enqueued, exc, errors>>

\* mutant: the pending AudioError is dropped
MutGenCleanupUnsetSwallows ==
    /\ gen = "unset"
    /\ stream' = "none"
    /\ gen' = "done"
    /\ errors' = errors
    /\ op' = "gen_unset"
    /\ UNCHANGED <<drvfixed, vadvars, running, speech_queue, yielded, cb, st,
                   enqueued, exc, closes>>

\* _cleanup(): self._stream = None; the generator ends, with the pending
\* AudioError if there is one
GenCleanupUnset ==
    /\ gen = "unset"
    /\ stream' = "none"
    /\ gen' = "done"
    /\ errors' = errors + (IF exc = "AudioError" THEN 1 ELSE 0)
    /\ op' = "gen_unset"
    /\ UNCHANGED <<drvfixed, vadvars, running, speech_queue, yielded, cb, st,
                   enqueued, exc, closes>>

\* ---- the thread calling stop()
\* self._running = False
StopFlag ==
    /\ st.pc = "idle"
    /\ running' = FALSE
    /\ st' = [st EXCEPT !.pc = "flush"]
    /\ op' = "stop"
    /\ UNCHANGED <<drvfixed, vadvars, stream, speech_queue, gen, yielded, cb,
                   enqueued, exc, errors, closes>>

\* remaining = self._vad.get_buffered_speech()
StopFlush ==
    /\ st.pc = "flush"
    /\ LET r == get_buffered_speech(vad)
       IN /\ vad' = r.vad
          /\ epoch_pos' = IF r.did_reset THEN pos ELSE epoch_pos
          /\ emitted' = emitted \o r.result
          /\ st' = [pc |-> "cleanup", remaining |-> r.result]
    /\ op' = "stop_flush"
    /\ UNCHANGED <<drvfixed, pos, history, result, recvars, cb, enqueued, exc,
                   errors, closes>>

\* _cleanup(), "if self._stream is not None"
StopCleanupCheck ==
    /\ st.pc = "cleanup"
    /\ st' = [st EXCEPT !.pc = IF stream # "none" THEN "close" ELSE "returned"]
    /\ op' = "stop_cleanup"
    /\ UNCHANGED <<drvfixed, vadvars, recvars, cb, enqueued, exc, errors, closes>>

\* _cleanup(): stop() and close() are called on the stream
StopCleanupClose ==
    /\ st.pc = "close"
    /\ closes' = closes + (IF stream # "none" THEN 1 ELSE 0)
    /\ stream' = IF stream # "none" THEN "closed" ELSE stream
    /\ st' = [st EXCEPT !.pc = "unset"]
    /\ op' = "stop_close"
    /\ UNCHANGED <<drvfixed, vadvars, running, speech_queue, gen, yielded, cb,
                   enqueued, exc, errors>>

\* _cleanup(): self._stream = None; stop() returns remaining
StopCleanupUnset ==
    /\ st.pc = "unset"
    /\ stream' = "none"
    /\ st' = [st EXCEPT !.pc = "returned"]
    /\ op' = "stop_unset"
    /\ UNCHANGED <<drvfixed, vadvars, running, speech_queue, gen, yielded, cb,
                   enqueued, exc, errors, closes>>

InitDrv == InitWith(DrvConfigs)

Callback == CbEnter \/ CbFrame \/ CbReturn

Generator ==
    \/ StartBegin \/ CreateStream \/ StartStream \/ LoopCheck \/ QueueGet
    \/ Resume \/ YieldRaises \/ GenCleanupCheck \/ GenCleanupClose
    \/ GenCleanupUnset

StopCall ==
    \/ StopFlag \/ StopFlush \/ StopCleanupCheck \/ StopCleanupClose
    \/ StopCleanupUnset

NextDrv == Callback \/ Generator \/ StopCall

SpecDrv == InitDrv /\ [][NextDrv]_vars

\* SpecDrvFair: the generator's thread keeps running while the generator is
\* not suspended (the queue get returns within its timeout), and a consumer
\* that iterates the sequence asks for the next segment
SpecDrvFair ==
    /\ InitDrv
    /\ [][NextDrv]_vars
    /\ WF_vars(CreateStream)
    /\ WF_vars(StartStream)
    /\ WF_vars(LoopCheck)
    /\ WF_vars(QueueGet)
    /\ WF_vars(Resume)
    /\ WF_vars(GenCleanupCheck)
    /\ WF_vars(GenCleanupClose)
    /\ WF_vars(GenCleanupUnset)

\* ------------------------------------------------- classifier failures
\* SpecClassify: a detector fed chunks, the frames whose classification
\* raised being recorded in failed
ClassifyConfigs == {Config(16000, 30, 30, 30), Config(16000, 60, 60, 30)}

\* the frames of log whose outcome was an exception, by their first sample
Raised(log, outcomes) ==
    {log[i].frame[1].start : i \in {j \in 1..Len(log) : outcomes[j] = "raise"}}

ClassifyChunk ==
    \E n \in ChunkLens :
        /\ pos + n <= MaxFrames * frame_size
        /\ \E outcomes \in [1..FramesIn(n) -> Outcomes] :
            /\ ProcessChunkWith(n, outcomes)
            /\ failed' = failed \cup
                   Raised(SubSeq(history', Len(history) + 1, Len(history')), outcomes)
        /\ op' = "process_chunk"
        /\ UNCHANGED <<ncontrol, recvars, construction, cb, st, enqueued, exc,
                       errors, closes>>

InitClassify == InitWith(ClassifyConfigs)

NextClassify == ClassifyChunk

SpecClassify == InitClassify /\ [][NextClassify]_vars

\* ---------------------------------------------------------- construction
\* SpecConstruct: VoiceActivityDetector(...) called with valid and invalid
\* arguments, and the first chunk given to the instance if there is one; vad
\* is the instance's state once construction is "ok"
SAMPLE_RATES == {8000, 16000, 32000, 48000}

AGGRESSIVENESS == 0..3

ConstructArgs ==
    [sample_rate : {16000, 44100}, aggressiveness : {-1, 2, 4},
     silence_threshold_ms : {-300, 30}, min_speech_ms : {-250, 30},
     speech_padding_ms : {-300, 30}]

InitConstruct ==
    /\ cfg \in ConstructArgs
    /\ vad = InitialVad
    /\ pos = 0
    /\ history = <<>>
    /\ epoch_pos = 0
    /\ op = "init"
    /\ ncontrol = 0
    /\ result = <<>>
    /\ evals = <<>>
    /\ emitted = <<>>
    /\ running = FALSE
    /\ stream = "none"
    /\ speech_queue = <<>>
    /\ gen = "unstarted"
    /\ yielded = <<>>
    /\ construction = "pending"
    /\ failed = {}
    /\ cb = [pc |-> "idle", result |-> <<>>]
    /\ st = [pc |-> "idle", remaining |-> <<>>]
    /\ enqueued = <<>>
    /\ exc = "none"
    /\ errors = 0
    /\ closes = 0

\* __init__: the two checks, then the instance's initial state
Construct ==
    /\ construction = "pending"
    /\ IF cfg.sample_rate \notin SAMPLE_RATES \/ cfg.aggressiveness \notin AGGRESSIVENESS
       THEN construction' = "ValueError" /\ vad' = vad
       ELSE construction' = "ok" /\ vad' = InitialVad
    /\ op' = "construct"
    /\ UNCHANGED <<cfg, ncontrol, pos, history, epoch_pos, result, evals, emitted,
                   recvars, failed, cb, st, enqueued, exc, errors, closes>>

\* the first process_chunk call on the instance
FirstChunk ==
    /\ construction = "ok"
    /\ pos = 0
    /\ ProcessChunk

NextConstruct == Construct \/ FirstChunk

SpecConstruct == InitConstruct /\ [][NextConstruct]_vars

\* ----------------------------------------------------------------- claims
Min(a, b) == IF a <= b THEN a ELSE b

Last(q) == q[Len(q)]

\* the last n elements of q
LastN(q, n) == SubSeq(q, Len(q) - n + 1, Len(q))

Idle == ~vad.is_speaking

CountersZero == vad.speech_frames = 0 /\ vad.silence_frames = 0

ConcreteConfig == Config(16000, 300, 90, 60)

\* C1 as stated: on a fresh detector, p non-speech frames, s >= min_speech_frames
\* speech frames and silence_frames_threshold non-speech frames yield exactly
\* one segment of (min(p, padding_frames) + s + silence_frames_threshold) *
\* frame_size samples, for every configuration and every s >= min_speech_frames.
C1_Original ==
    \A p \in 0..MaxLeadSilence, s \in 1..MaxSpeechRun :
        (s >= min_speech_frames /\ Verdicts(history) = Script(p, s))
            => /\ Len(emitted) = 1
               /\ ALen(emitted[1])
                    = (Min(p, padding_frames) + s + silence_frames_threshold) * frame_size

\* C1 amended: the same for silence_frames_threshold >= 1 and s >= 1; and with
\* 16000 Hz, 300/90/60 ms, 2 silence + 5 speech + 10 silence frames yield
\* exactly one segment, of 8160 samples, and 2 + 2 + 10 yield none.
C1_ScenarioSegment ==
    /\ \A p \in 0..MaxLeadSilence, s \in 1..MaxSpeechRun :
        (/\ silence_frames_threshold >= 1
         /\ s >= min_speech_frames
         /\ Verdicts(history) = Script(p, s))
            => /\ Len(emitted) = 1
               /\ ALen(emitted[1])
                    = (Min(p, padding_frames) + s + silence_frames_threshold) * frame_size
    /\ (cfg = ConcreteConfig /\ Verdicts(history) = Script(2, 5))
            => emitted = << <<[start |-> 0, len |-> 8160]>> >>
    /\ (cfg = ConcreteConfig /\ IsPrefix(Verdicts(history), Script(2, 2)))
            => emitted = <<>>

C1_Witness ==
    /\ cfg = ConcreteConfig
    /\ Verdicts(history) = Script(2, 5)
    /\ Len(emitted) = 1
    /\ ALen(emitted[1]) = 8160

\* C2: while every frame classified so far was non-speech, no call has
\* returned a segment, however the stream was chunked and whatever reset()
\* and get_buffered_speech() calls were made.
C2_AllSilenceEmitsNothing ==
    (\A i \in 1..Len(history) : ~history[i].speech)
        => emitted = <<>> /\ result = <<>> /\ Idle /\ vad.speech_buffer = <<>>

C2_Witness ==
    /\ Len(history) >= 4
    /\ \A i \in 1..Len(history) : ~history[i].speech
    /\ min_speech_frames = 0
    /\ op = "get_buffered_speech"
    /\ emitted = <<>>

\* C3 as stated: for every configuration, from Idle, min_speech_frames speech
\* frames then silence_frames_threshold non-speech frames emit exactly one
\* segment of at least min_speech_frames * frame_size samples and leave the
\* detector Idle with both counters 0.
C3_Original ==
    \A p \in 0..MaxLeadSilence :
        Verdicts(history) = Script(p, min_speech_frames)
            => /\ Len(emitted) = 1
               /\ ALen(emitted[1]) >= min_speech_frames * frame_size
               /\ Idle /\ CountersZero

\* C3 amended: the same for the configurations with min_speech_frames >= 1
\* and silence_frames_threshold >= 1.
C3_ExactRuns ==
    \A p \in 0..MaxLeadSilence :
        (/\ min_speech_frames >= 1
         /\ silence_frames_threshold >= 1
         /\ Verdicts(history) = Script(p, min_speech_frames))
            => /\ Len(emitted) = 1
               /\ ALen(emitted[1]) >= min_speech_frames * frame_size
               /\ Idle /\ CountersZero

C3_Witness ==
    /\ min_speech_frames >= 2
    /\ silence_frames_threshold >= 2
    /\ Verdicts(history) = Script(1, min_speech_frames)
    /\ Len(emitted) = 1
    /\ Idle

\* a process_chunk call that classified exactly one frame, a non-speech one
OneSilenceFrame ==
    /\ op' = "process_chunk"
    /\ Len(history') = Len(history) + 1
    /\ ~Last(history').speech

\* C4: when a non-speech frame takes the silence count to the threshold while
\* Speaking, the call returns the concatenated speech buffer (that frame
\* included) iff speech_frames >= min_speech_frames and nothing otherwise; in
\* both cases the detector is then Idle, its speech buffer empty, its
\* counters 0.
C4_EmissionEvaluation ==
    [][(/\ OneSilenceFrame
        /\ vad.is_speaking
        /\ vad.silence_frames + 1 >= silence_frames_threshold)
          => /\ result' = IF vad.speech_frames >= min_speech_frames
                          THEN <<NpConcatenate(Append(vad.speech_buffer,
                                                      Last(history').frame))>>
                          ELSE <<>>
             /\ evals' = <<result'>>
             /\ ~vad'.is_speaking
             /\ vad'.speech_buffer = <<>>
             /\ vad'.speech_frames = 0
             /\ vad'.silence_frames = 0]_vars

\* an utterance was emitted earlier and a too short one has just been dropped
C4_Witness ==
    /\ op = "process_chunk"
    /\ evals = << <<>> >>
    /\ result = <<>>
    /\ Len(emitted) = 1
    /\ Idle /\ CountersZero
    /\ ~Last(history).speech

\* ---- C5: the leading padding of a segment
\* array a holds every sample of frame f
Contains(a, f) ==
    \E i \in 1..Len(a) :
        a[i].start <= f[1].start /\ f[1].start + f[1].len <= a[i].start + a[i].len

\* where in h the first speech frame of segment seg stands: the frame that
\* took the detector from Idle to Speaking for that utterance
FirstSpeech(h, seg) ==
    CHOOSE k \in 1..Len(h) :
        /\ h[k].speech /\ Contains(seg, h[k].frame)
        /\ \A j \in 1..(k - 1) : ~(h[j].speech /\ Contains(seg, h[j].frame))

\* the entries of h before entry k that were classified since stream position e
Before(h, e, k) ==
    SelectSeq(SubSeq(h, 1, k - 1), LAMBDA x : x.frame[1].start >= e)

NonSpeech(h) == SelectSeq(h, LAMBDA x : ~x.speech)

Frames(h) == [i \in 1..Len(h) |-> h[i].frame]

\* seg starts with the frames of entries, then frame first
LeadsWith(seg, entries, first) ==
    Take(seg, (Len(entries) + 1) * frame_size)
        = NpConcatenate(Append(Frames(entries), first.frame))

\* C5 as stated: every returned segment starts with the last padding_frames
\* frames classified before its Idle->Speaking transition (all of them if
\* fewer), in order, then the first speech frame.
C5_Original ==
    [][result' # <<>> =>
        LET seg == result'[1]
            k == FirstSpeech(history', seg)
            b == Before(history', epoch_pos, k)
        IN LeadsWith(seg, LastN(b, Min(padding_frames, Len(b))), history'[k])]_vars

\* C5 amended: every returned segment starts with the last padding_frames
\* NON-SPEECH frames classified, since construction or reset(), before its
\* Idle->Speaking transition (all of them if fewer), in order, then the first
\* speech frame.
C5_LeadingPadding ==
    [][result' # <<>> =>
        LET seg == result'[1]
            k == FirstSpeech(history', seg)
            b == NonSpeech(Before(history', epoch_pos, k))
        IN LeadsWith(seg, LastN(b, Min(padding_frames, Len(b))), history'[k])]_vars

\* a segment whose padding is the second of two pre-speech frames
C5_Witness ==
    /\ padding_frames = 1
    /\ Len(history) >= 4
    /\ ~history[1].speech /\ ~history[2].speech /\ history[3].speech
    /\ result # <<>>
    /\ Take(result[1], 2 * frame_size)
         = NpConcatenate(<<history[2].frame, history[3].frame>>)

\* ---- C6
\* C6: the padding ring never holds more than padding_frames frames, also for
\* padding_frames = 0, and a non-speech frame pushed on a full ring evicts
\* the oldest one.
C6_PaddingRingBounded ==
    /\ [](Len(vad.pre_speech_buffer) <= padding_frames)
    /\ [][OneSilenceFrame =>
            LET r == Append(vad.pre_speech_buffer, Last(history').frame)
            IN vad'.pre_speech_buffer = LastN(r, Min(padding_frames, Len(r)))]_vars

\* a full ring after an eviction
C6_Witness ==
    /\ padding_frames = 1
    /\ epoch_pos = 0
    /\ Len(history) >= 2
    /\ ~history[1].speech /\ ~history[2].speech
    /\ vad.pre_speech_buffer = <<Last(NonSpeech(history)).frame>>

\* ---- C7
\* C7: get_buffered_speech always leaves the detector Idle with an empty
\* speech buffer and zero counters, also when it returns nothing, and returns
\* a segment only if speech_frames >= min_speech_frames.
C7_FlushAlwaysResets ==
    [][op' = "get_buffered_speech" =>
        /\ ~vad'.is_speaking
        /\ vad'.speech_buffer = <<>>
        /\ vad'.speech_frames = 0
        /\ vad'.silence_frames = 0
        /\ (result' # <<>> => vad.speech_frames >= min_speech_frames)]_vars

\* ---- C8
\* C8: stop() called while Speaking with speech_frames >= min_speech_frames
\* returns the concatenation of the whole speech buffer; stop() called while
\* Idle returns nothing.
C8_StopMidUtterance ==
    [][op' = "stop" =>
        /\ (vad.is_speaking /\ vad.speech_frames >= min_speech_frames)
              => result' = <<NpConcatenate(vad.speech_buffer)>>
        /\ ~vad.is_speaking => result' = <<>>]_vars

\* stop() returned leading silence, speech and trailing silence
C8_Witness ==
    /\ op = "stop"
    /\ Len(history) >= 3
    /\ ~history[1].speech
    /\ ~Last(history).speech
    /\ result = <<NpConcatenate(Frames(history))>>

\* ---- C9
\* C9: reset(), from any state and on a fresh instance, leaves the detector
\* as constructed (Idle, empty speech buffer, empty padding ring, zero
\* counters, empty carry-over), and no sample delivered before a reset() is
\* in a segment returned after it.
C9_ResetClears ==
    [][/\ op' = "reset" => vad' = InitialVad
       /\ result' # <<>> =>
            \A i \in 1..Len(result'[1]) : result'[1][i].start >= epoch_pos]_vars

\* a segment returned after a reset() that followed pre-speech silence
C9_Witness ==
    /\ epoch_pos >= frame_size
    /\ padding_frames >= 1
    /\ ~history[1].speech
    /\ op = "process_chunk"
    /\ result # <<>>

\* ---- C10
\* the last segment among the evaluation results q: <<>> if there is none
RECURSIVE LastSegment(_)
LastSegment(q) ==
    IF q = <<>> THEN <<>>
    ELSE IF Last(q) # <<>> THEN Last(q)
    ELSE LastSegment(SubSeq(q, 1, Len(q) - 1))

\* C10 as stated: when two emission evaluations happen in one call, the call
\* returns the result of the second one.
C10_Original ==
    (op = "process_chunk" /\ Len(evals) = 2) => result = evals[2]

\* C10 amended: process_chunk returns the last segment completed within the
\* call and drops the earlier ones; an evaluation that discards a too short
\* utterance leaves the result of an earlier evaluation in place.
C10_LastSegmentReturned ==
    op = "process_chunk" =>
        /\ result = LastSegment(evals)
        /\ Len(result) <= 1
        /\ emitted # <<>> /\ result # <<>> => Last(emitted) = result[1]

\* two segments completed in one call: the second returned, the first lost
C10_Witness ==
    /\ op = "process_chunk"
    /\ Len(evals) = 2
    /\ evals[1] # <<>> /\ evals[2] # <<>>
    /\ result = evals[2]
    /\ emitted = result

\* ------------------------------------------------------------------ C11
\* the frames classified since the detector was last reset
SinceReset == SelectSeq(history, LAMBDA e : e.frame[1].start >= epoch_pos)

\* the spans of array a
Spans(a) == {a[i] : i \in 1..Len(a)}

\* span s is made of whole frames that were classified
MadeOfFrames(s, h) ==
    /\ s.len % frame_size = 0
    /\ \A k \in 0..(s.len \div frame_size - 1) :
           \E i \in 1..Len(h) : h[i].frame[1].start = s.start + k * frame_size

\* what the sample stream alone determines: the frames are the consecutive
\* frame_size slices of the samples received since the last reset, and the
\* carry-over is what is left behind the last whole frame
FramedFrontToBack ==
    LET received == pos - epoch_pos
        rest == received % frame_size
    IN /\ \A i \in 1..Len(history) :
              Len(history[i].frame) = 1 /\ ALen(history[i].frame) = frame_size
       /\ Len(SinceReset) = received \div frame_size
       /\ \A j \in 1..Len(SinceReset) :
              SinceReset[j].frame[1].start = epoch_pos + (j - 1) * frame_size
       /\ rest < frame_size
       /\ vad.chunk_buffer = IF rest = 0 THEN <<>>
                             ELSE <<[start |-> pos - rest, len |-> rest]>>

\* C11: the frames classified and the carry-over are a function of the samples
\* received since the last reset, whatever chunks they came in: each frame is
\* exactly frame_size samples, taken front to back, the carry-over stays below
\* frame_size samples after every call, and a returned segment is made of
\* classified frames only: it ends before the carry-over that process_chunk
\* leaves behind, and before the carry-over that get_buffered_speech finds
\* and discards.
C11_FramingIndependentOfChunking ==
    /\ []FramedFrontToBack
    /\ [][result' # <<>> =>
             \A s \in Spans(result'[1]) :
                 /\ MadeOfFrames(s, history')
                 /\ op' = "process_chunk" =>
                        s.start + s.len <= pos' - ALen(vad'.chunk_buffer)
                 /\ op' = "get_buffered_speech" =>
                        /\ s.start + s.len <= pos - ALen(vad.chunk_buffer)
                        /\ vad'.chunk_buffer = <<>>]_vars

\* a call returned a segment while half a frame stayed behind in the
\* carry-over, the chunks having cut through the frames
C11_Witness ==
    /\ op = "process_chunk"
    /\ result # <<>>
    /\ ALen(vad.chunk_buffer) = frame_size \div 2
    /\ Len(history) >= 3

\* ------------------------------------------------------------------ C12
\* C12: once stop() has set the running flag to false, the generator never
\* starts another queue get when it re-checks the flag: it leaves the loop.
\* A generator that is in the loop with the flag false reaches the re-check
\* after one get, whether the get times out or returns a segment that the
\* consumer then resumes from, and then runs to its end; no segment has to
\* arrive for that.
C12_StopEndsSequence ==
    /\ [][(gen = "check" /\ ~running) => gen' \in {"check", "cleanup"}]_vars
    /\ [][(gen = "get" /\ ~running) => gen' \in {"get", "check", "yielded"}]_vars
    /\ (~running /\ gen \in {"check", "get"})
           ~> (gen \in {"yielded", "cleanup", "close", "unset", "done"})
    /\ (~running /\ gen # "unstarted") ~> (gen = "done")

\* stop() was called on a running recorder and the sequence ended normally,
\* no segment ever having been enqueued
C12_Witness ==
    /\ gen = "done"
    /\ exc = "none"
    /\ st.pc # "idle"
    /\ ~running
    /\ enqueued = <<>>

\* ------------------------------------------------------------------ C13
\* C13: while the running flag is false no segment is put on the handoff queue.
C13_NoEnqueueAfterStop ==
    [][~running => enqueued' = enqueued]_vars

\* ------------------------------------------------------------------ C14
\* the speech buffer, the padding ring and the counters
Accumulators(v) ==
    <<v.speech_buffer, v.pre_speech_buffer, v.silence_frames, v.speech_frames,
      v.is_speaking>>

\* C14: while the callback is inside process_chunk, only the callback's own
\* steps change the speech buffer, the padding ring and the counters.
C14_SingleWriter ==
    [][(cb.pc = "loop" /\ Accumulators(vad') # Accumulators(vad))
           => op' = "cb_frame"]_vars

\* ------------------------------------------------------------------ C15
\* C15: the generator ends only out of _cleanup, which leaves the stream
\* none, whichever way the generator left its loop; once it has ended the
\* recorder holds no stream.
C15_CleanupBeforeTermination ==
    /\ [](gen = "done" => stream = "none")
    /\ [][(gen' = "done" /\ gen # "done")
             => (gen \in {"cleanup", "unset"} /\ stream' = "none")]_vars

\* the consumer closed the suspended generator while the recorder was
\* running, and the finally clause closed the stream
C15_Witness ==
    /\ gen = "done"
    /\ exc = "GeneratorExit"
    /\ running
    /\ closes = 1
    /\ stream = "none"

\* ------------------------------------------------------------------ C16
\* C16: a failure in the generator (the stream failing to be created or
\* started, an exception inside the loop) reaches the consumer as one
\* AudioError: an ended generator has raised exactly one AudioError if a
\* failure was pending and none otherwise, a pending failure is raised in the
\* end, and when it is raised the generator has ended, the stream is none and
\* nothing more is yielded.
C16_FailureSurfacedOnce ==
    /\ [](errors <= 1)
    /\ [](gen = "done" => errors = (IF exc = "AudioError" THEN 1 ELSE 0))
    /\ [](errors = 1 => (gen = "done" /\ stream = "none"))
    /\ [][errors = 1 => yielded' = yielded]_vars
    /\ (exc = "AudioError") ~> (errors = 1)

\* the stream was built but failed to start: AudioError was raised once, after
\* _cleanup closed the stream
C16_Witness ==
    /\ errors = 1
    /\ closes = 1
    /\ pos = 0
    /\ st.pc = "idle"
    /\ gen = "done"

\* ------------------------------------------------------------------ C19
\* C19: the segments yielded, followed by those waiting on the queue, are the
\* segments enqueued, in the order they were enqueued: none is lost,
\* duplicated or reordered; and the k-th segment enqueued is yielded unless
\* the running flag goes false or the generator is ended first.
C19_FifoHandoff ==
    /\ [](yielded \o speech_queue = enqueued)
    /\ \A k \in 1..MaxDrvFrames :
           (Len(enqueued) >= k)
               ~> (Len(yielded) >= k \/ ~running
                      \/ gen \in {"cleanup", "close", "unset", "done"})

\* two segments were enqueued before the consumer took any, and both were
\* yielded, the older one first
C19_Witness ==
    /\ Len(yielded) = 2
    /\ yielded = enqueued
    /\ yielded[1][1].start < yielded[2][1].start
    /\ running

\* ------------------------------------------------------------------ C20
\* C20: when process_chunk has returned in the callback, the callback's last
\* step, which puts a completed segment on the queue, is enabled, wherever
\* the generator and stop() are and however many segments are waiting; and
\* while frames are left the next turn of the loop is enabled.
C20_ProducerNeverBlocks ==
    cb.pc = "loop" =>
        IF ALen(vad.chunk_buffer) < frame_size
        THEN ENABLED CbReturn
        ELSE ENABLED CbFrame

\* the callback is about to enqueue a segment while another one waits on the
\* queue and the consumer is still busy with the first
C20_Witness ==
    /\ cb.pc = "loop"
    /\ ALen(vad.chunk_buffer) < frame_size
    /\ cb.result # <<>>
    /\ speech_queue # <<>>
    /\ gen \in {"check", "yielded"}

\* ------------------------------------------------------------------ C17
\* the classifier answers that give the frames of log their verdicts, a frame
\* whose classification raised being given a non-speech answer
AsNonSpeech(log, raised) ==
    [i \in 1..Len(log) |->
        IF log[i].frame[1].start \in raised THEN "nonspeech"
        ELSE IF log[i].speech THEN "speech" ELSE "nonspeech"]

\* C17: a process_chunk call in which classifications raise returns, with the
\* state and the return value of the same call in which those frames get a
\* non-speech verdict, and it classifies every whole frame it was given, the
\* frames after a failed one included.
C17_FailureIsNonSpeech ==
    [][op' = "process_chunk" =>
         LET log == SubSeq(history', Len(history) + 1, Len(history'))
             n == pos' - pos
             ls == process_chunk(vad, <<[start |-> pos, len |-> n]>>,
                                 AsNonSpeech(log, failed'))
         IN /\ Len(log) = FramesIn(n)
            /\ \A i \in 1..Len(log) :
                   log[i].frame[1].start \in failed' => ~log[i].speech
            /\ vad' = ls.vad
            /\ result' = ls.result
            /\ ALen(vad'.chunk_buffer) < frame_size]_vars

\* a frame whose classification raised ended an utterance as a non-speech
\* frame would: the call returned the segment, whose last frame it is, and
\* went on to classify the frame after it
C17_Witness ==
    /\ op = "process_chunk"
    /\ result # <<>>
    /\ \E i \in 1..(Len(history) - 1) :
           /\ history[i].frame[1].start \in failed
           /\ Last(result[1]).start + Last(result[1]).len
                  = history[i].frame[1].start + frame_size
           /\ history[i + 1].speech

\* ------------------------------------------------------------------ C18
\* the arguments the claim calls invalid
Invalid(c) ==
    \/ c.sample_rate \notin SAMPLE_RATES
    \/ c.aggressiveness \notin AGGRESSIVENESS
    \/ c.silence_threshold_ms < 0
    \/ c.min_speech_ms < 0
    \/ c.speech_padding_ms < 0

\* C18: construction with an invalid argument yields no instance.
C18_InvalidArgsRejected ==
    Invalid(cfg) => construction # "ok"

\* ------------------------------------------------------------------ C21
\* a process_chunk call that classified exactly one frame, a speech one
OneSpeechFrame ==
    /\ op' = "process_chunk"
    /\ Len(history') = Len(history) + 1
    /\ Last(history').speech

\* C21: a speech frame in Idle makes the detector Speaking, with the padding
\* ring's frames followed by the frame as its speech buffer, one speech
\* frame counted and no silence frame; with an empty ring the buffer is the
\* frame alone.
C21_IdleToSpeaking ==
    [][(OneSpeechFrame /\ ~vad.is_speaking) =>
           /\ vad'.is_speaking
           /\ vad'.speech_buffer
                  = Append(vad.pre_speech_buffer, Last(history').frame)
           /\ vad'.speech_frames = 1
           /\ vad'.silence_frames = 0
           /\ vad'.pre_speech_buffer = <<>> =>
                  vad'.speech_buffer = <<Last(history').frame>>]_vars

\* speech just started after some silence: the buffer holds padding and the
\* one speech frame
C21_Witness ==
    /\ op = "process_chunk"
    /\ history # <<>>
    /\ Last(history).speech
    /\ vad.is_speaking
    /\ vad.speech_frames = 1
    /\ Len(vad.speech_buffer) >= 2
    /\ vad.speech_buffer = Append(vad.pre_speech_buffer, Last(history).frame)

\* ------------------------------------------------------------------ C22
\* the last n entries of h are non-speech frames
EndsWithSilence(h, n) ==
    /\ Len(h) >= n
    /\ \A i \in (Len(h) - n + 1)..Len(h) : ~h[i].speech

\* C22: a speech frame in Speaking is appended to the speech buffer, counted,
\* and zeroes the silence count; the silence count is the length of the
\* non-speech run the frames end with, so the utterance is ended only by the
\* non-speech frame that makes the run silence_frames_threshold long, and a
\* shorter run followed by speech leaves the utterance and its count going.
C22_SpeechInSpeaking ==
    /\ [][(OneSpeechFrame /\ vad.is_speaking) =>
             /\ vad'.is_speaking
             /\ vad'.speech_buffer = Append(vad.speech_buffer, Last(history').frame)
             /\ vad'.speech_frames = vad.speech_frames + 1
             /\ vad'.silence_frames = 0]_vars
    /\ [](vad.is_speaking =>
             /\ EndsWithSilence(history, vad.silence_frames)
             /\ vad.silence_frames < Len(history) =>
                    history[Len(history) - vad.silence_frames].speech)
    /\ [][(OneSilenceFrame /\ vad.is_speaking) =>
             (vad'.is_speaking <=> vad.silence_frames + 1 < silence_frames_threshold)]_vars

\* a silence run shorter than the threshold was followed by speech: the
\* utterance goes on, with both speech frames counted
C22_Witness ==
    /\ silence_frames_threshold >= 2
    /\ Len(history) >= 3
    /\ LET n == Len(history)
       IN history[n].speech /\ ~history[n - 1].speech /\ history[n - 2].speech
    /\ vad.is_speaking
    /\ vad.speech_frames >= 2
    /\ vad.silence_frames = 0
    /\ emitted = <<>>

\* ------------------------------------------------------------------ C23
\* C23: the padding ring holds the last min(padding_frames, n) of the n
\* non-speech frames classified since construction or the last reset, oldest
\* first, whether they came in Idle or in Speaking.
C23_RingHoldsMostRecent ==
    LET silent == Frames(NonSpeech(SinceReset))
    IN vad.pre_speech_buffer = LastN(silent, Min(padding_frames, Len(silent)))

\* the ring took a non-speech frame that came while Speaking
C23_Witness ==
    /\ vad.is_speaking
    /\ vad.silence_frames >= 1
    /\ vad.pre_speech_buffer # <<>>
    /\ Last(vad.pre_speech_buffer) = Last(history).frame
    /\ Last(vad.speech_buffer) = Last(history).frame

\* ------------------------------------------------------------------ C24
\* C24: at the Idle->Speaking transition the ring's frames go to the front of
\* the speech buffer and the ring holds them no longer; no other step moves
\* the ring's frames into the speech buffer.
C24_RingDrainedOnce ==
    /\ [][(OneSpeechFrame /\ ~vad.is_speaking) =>
             /\ vad'.speech_buffer
                    = Append(vad.pre_speech_buffer, Last(history').frame)
             /\ vad'.pre_speech_buffer = <<>>]_vars
    /\ [][(OneSpeechFrame /\ vad.is_speaking) =>
             vad'.speech_buffer = Append(vad.speech_buffer, Last(history').frame)]_vars

\* ------------------------------------------------------------------ C25
\* C25: between calls the detector is Idle exactly when its speech buffer is
\* empty; in Idle both counters are 0; in Speaking at least one speech frame
\* is counted and, with a silence threshold of at least one frame, the
\* silence count is below the threshold.
C25_StateInvariant ==
    /\ ~vad.is_speaking <=> vad.speech_buffer = <<>>
    /\ ~vad.is_speaking => CountersZero
    /\ vad.is_speaking =>
           /\ vad.speech_frames >= 1
           /\ silence_frames_threshold >= 1 =>
                  vad.silence_frames < silence_frames_threshold

\* Idle again after an utterance was evaluated, and Speaking with a silence
\* run one short of the threshold, are both states the invariant speaks of;
\* this is the second
C25_Witness ==
    /\ vad.is_speaking
    /\ silence_frames_threshold >= 2
    /\ vad.silence_frames = silence_frames_threshold - 1
    /\ vad.speech_frames >= 2
    /\ emitted # <<>>

\* ------------------------------------------------------------------ C26
\* the entries of h whose frames are in segment seg, in order
InSegment(h, seg) == SelectSeq(h, LAMBDA e : Contains(seg, e.frame))

\* C26: a segment returned by process_chunk is a whole number of frames, has
\* at least min_speech_frames speech frames, and, with a silence threshold
\* of at least one frame, ends with exactly silence_frames_threshold
\* non-speech frames that follow a speech frame.
C26_SegmentShape ==
    (op = "process_chunk" /\ result # <<>>) =>
        LET seg == result[1]
            entries == InSegment(history, seg)
        IN /\ ALen(seg) % frame_size = 0
           /\ ALen(seg) = Len(entries) * frame_size
           /\ Len(SelectSeq(entries, LAMBDA e : e.speech)) >= min_speech_frames
           /\ silence_frames_threshold >= 1 =>
                  /\ EndsWithSilence(entries, silence_frames_threshold)
                  /\ Len(entries) > silence_frames_threshold
                  /\ entries[Len(entries) - silence_frames_threshold].speech

\* a segment with padding, two speech frames around a short pause, and the
\* closing silence
C26_Witness ==
    /\ op = "process_chunk"
    /\ result # <<>>
    /\ min_speech_frames >= 2
    /\ silence_frames_threshold >= 2
    /\ ALen(result[1]) >= 5 * frame_size

\* ------------------------------------------------------------------ C27
\* the frames of h that segment a and segment b both contain
SharedFrames(h, a, b) ==
    {i \in 1..Len(h) : Contains(a, h[i].frame) /\ Contains(b, h[i].frame)}

\* C27: no classified frame is in two of the segments returned by
\* process_chunk and get_buffered_speech.
C27_SegmentsDisjoint ==
    \A i, j \in 1..Len(emitted) :
        i < j => SharedFrames(history, emitted[i], emitted[j]) = {}

\* ------------------------------------------------------------------ C28
\* segment seg reached the consumer: the generator yielded it or stop()
\* returned it
Delivered(seg) ==
    \/ \E j \in 1..Len(yielded) : yielded[j] = seg
    \/ st.remaining = <<seg>>

\* C28: when the generator has ended after stop() and stop() has returned,
\* every segment that was enqueued has been yielded or returned by stop().
C28_NoSegmentLost ==
    (gen = "done" /\ exc = "none" /\ st.pc = "returned" /\ cb.pc = "idle") =>
        \A i \in 1..Len(enqueued) : Delivered(enqueued[i])

\* ------------------------------------------------------------------ C29
\* C29: when the generator has ended the running flag is false.
C29_NotRunningWhenDone ==
    gen = "done" => ~running

\* ------------------------------------------------------------------ C30
\* C30: the two _cleanup calls together call stop() and close() on the
\* session's stream once: the one that comes second leaves the stream alone.
C30_ClosedOnce ==
    closes <= 1

====
